---- MODULE Spec2Model ----
(***************************************************************************)
(* A model of the Cerebros workspace tools: the browse session's lazy      *)
(* directory tree (app/browse/tree.py, app/browse/app.py), the display     *)
(* formatter (app/browse/formatting.py), the line-heuristic search         *)
(* (app/commands/search.py), the validate command with its schema-name     *)
(* resolution and reference localization (app/commands/validate.py) and    *)
(* the command line entry point (cerebros.py).                             *)
(*                                                                         *)
(* Text is a sequence of one-character strings.  File-system paths are     *)
(* sequences of entry names; <<"ws", "a">> is the path /ws/a.              *)
(***************************************************************************)
EXTENDS Integers, Sequences, FiniteSets, TLC

VARIABLES
    fs,             \* the file system: present entries, unlistable dirs, unreadable files
    tree,           \* the Tree widget's root node (data, children)
    search_term,    \* BrowseApp.search_term
    matched_files,  \* BrowseApp.matched_files
    mounted,        \* on_mount has run
    last,           \* the handler that ran last, and the node it ran on
    budget,         \* file-system events still allowed
    hl,             \* one call of _highlight: value, term, result
    fmt,            \* one call of format_yaml_object: obj, search_term, result
    search,         \* one run of the search command
    schema,         \* one call of get_schema_name_from_filename: filename, result
    refs,           \* one use of rewrite_refs: document, base, results
    val,            \* one run of the validate command
    cli,            \* one invocation of the command line: argv, output, result
    loc             \* one file and term given to _scan_for_term and to the line scan

varsTree == <<fs, tree, search_term, matched_files, mounted, last, budget>>

\* The variables the browse session leaves alone.
othersTree == <<hl, fmt, search, schema, refs, val, cli, loc>>

vars == <<fs, tree, search_term, matched_files, mounted, last, budget,
          hl, fmt, search, schema, refs, val, cli, loc>>

\* A component that is not running.
Idle == "idle"

\* The components added to the model after schema-name resolution.
varsMore == <<refs, val, cli, loc>>

MoreIdle == refs = Idle /\ val = Idle /\ cli = Idle /\ loc = Idle

----------------------------------------------------------------------------
(* Python values *)

\* None.  It is told apart from every text, which is a sequence of characters.
None == <<"None">>

Min(a, b) == IF a <= b THEN a ELSE b

\* s[a:b] of Python, for 0 <= a, b: the bounds are clamped to the length.
Slice(s, a, b) == SubSeq(s, a + 1, Min(b, Len(s)))

\* s.startswith(p)
StartsWith(s, p) == Len(p) <= Len(s) /\ SubSeq(s, 1, Len(p)) = p

\* s.endswith(p)
EndsWith(s, p) == Len(p) <= Len(s) /\ SubSeq(s, Len(s) - Len(p) + 1, Len(s)) = p

\* The lower-case form of one character.  "Idot" stands for U+0130 (capital I
\* with dot above), which str.lower() turns into the two characters U+0069
\* U+0307, written "i" and "dot" here; every other character lowers to one.
\* "Sigma" stands for U+03A3 (capital sigma), "sigma" for U+03C3 and "fsigma"
\* for U+03C2 (final sigma).
LowerChar(c) ==
    CASE c = "A" -> <<"a">>
      [] c = "B" -> <<"b">>
      [] c = "G" -> <<"g">>
      [] c = "S" -> <<"s">>
      [] c = "X" -> <<"x">>
      [] c = "Y" -> <<"y">>
      [] c = "Idot" -> <<"i", "dot">>
      [] c = "Sigma" -> <<"sigma">>
      [] OTHER -> <<c>>

\* The characters that have a case, and those str.lower() looks through when
\* it decides whether a capital sigma ends a word.
Cased(c) ==
    c \in {"a", "b", "c", "d", "e", "f", "g", "h", "i", "j", "k", "l", "m",
           "n", "o", "p", "q", "r", "s", "t", "u", "v", "w", "x", "y", "z",
           "A", "B", "C", "D", "E", "F", "G", "H", "I", "J", "K", "L", "M",
           "N", "O", "P", "Q", "R", "S", "T", "U", "V", "W", "X", "Y", "Z",
           "Idot", "Sigma", "sigma", "fsigma"}
CaseIgnorable(c) == c \in {":", ".", "'", "dot"}

\* Whether the capital sigma at position i of s is lowered to a final sigma:
\* a cased character stands before it and none after it, case-ignorable
\* characters aside.
FinalSigma(s, i) ==
    /\ \E j \in 1..(i - 1) :
          Cased(s[j]) /\ \A k \in (j + 1)..(i - 1) : CaseIgnorable(s[k])
    /\ ~\E j \in (i + 1)..Len(s) :
          Cased(s[j]) /\ \A k \in (i + 1)..(j - 1) : CaseIgnorable(s[k])

RECURSIVE LowerFrom(_, _)
\* The lower-case form of s from position i on.
LowerFrom(s, i) ==
    IF i > Len(s) THEN <<>>
    ELSE (IF s[i] = "Sigma" /\ FinalSigma(s, i) THEN <<"fsigma">>
          ELSE LowerChar(s[i]))
         \o LowerFrom(s, i + 1)

\* str.lower()
Lower(s) == LowerFrom(s, 1)

\* hay.find(needle, start): the lowest 0-based index >= start where needle
\* occurs, -1 when there is none.
Find(hay, needle, start) ==
    LET hits == {i \in start..(Len(hay) - Len(needle)) :
                    SubSeq(hay, i + 1, i + Len(needle)) = needle}
    IN IF hits = {} THEN -1 ELSE CHOOSE i \in hits : \A j \in hits : i <= j

\* needle in hay
Contains(hay, needle) == Find(hay, needle, 0) # -1

IsSpace(c) == c \in {" ", "\n", "\t"}

RECURSIVE LStrip(_)
LStrip(s) == IF s # <<>> /\ IsSpace(Head(s)) THEN LStrip(Tail(s)) ELSE s

RECURSIVE RStrip(_)
RStrip(s) ==
    IF s # <<>> /\ IsSpace(s[Len(s)]) THEN RStrip(SubSeq(s, 1, Len(s) - 1)) ELSE s

\* str.strip()
Strip(s) == RStrip(LStrip(s))

----------------------------------------------------------------------------
(* The file system *)

\* The directory the browse session is opened on.
RootDir == <<"ws">>

\* Every entry that can exist, and the directories among them.  /ws2 is a
\* sibling of the root whose name begins with the root's name.
DirPaths == {<<"ws">>, <<"ws", "a">>, <<"ws", "a", "d">>, <<"ws2">>}
FilePaths == {<<"ws", "b.yml">>, <<"ws", "a", "c.yml">>, <<"ws", "a", "n.txt">>,
              <<"ws", "a", "d", "e.yml">>, <<"ws2", "f.yml">>}
Universe == DirPaths \cup FilePaths

\* The characters of each entry name.
NameChars(n) ==
    CASE n = "ws" -> <<"w", "s">>
      [] n = "ws2" -> <<"w", "s", "2">>
      [] n = "a" -> <<"a">>
      [] n = "d" -> <<"d">>
      [] n = "b.yml" -> <<"b", ".", "y", "m", "l">>
      [] n = "c.yml" -> <<"c", ".", "y", "m", "l">>
      [] n = "e.yml" -> <<"e", ".", "y", "m", "l">>
      [] n = "f.yml" -> <<"f", ".", "y", "m", "l">>
      [] n = "n.txt" -> <<"n", ".", "t", "x", "t">>
      [] n = ".." -> <<".", ".">>
      [] n = "p.yml" -> <<"p", ".", "y", "m", "l">>
      [] n = "q.yml" -> <<"q", ".", "y", "m", "l">>
      [] n = "r.yml" -> <<"r", ".", "y", "m", "l">>

\* The code point order of the characters of entry names.
CharRank(c) ==
    CASE c = "." -> 46
      [] c = "2" -> 50
      [] c = "a" -> 97
      [] c = "b" -> 98
      [] c = "c" -> 99
      [] c = "d" -> 100
      [] c = "e" -> 101
      [] c = "f" -> 102
      [] c = "l" -> 108
      [] c = "m" -> 109
      [] c = "n" -> 110
      [] c = "s" -> 115
      [] c = "t" -> 116
      [] c = "w" -> 119
      [] c = "x" -> 120
      [] c = "y" -> 121
      [] c = "/" -> 47

RECURSIVE CharsLess(_, _)
\* s < t for Python strings
CharsLess(s, t) ==
    IF t = <<>> THEN FALSE
    ELSE IF s = <<>> THEN TRUE
    ELSE IF Head(s) = Head(t) THEN CharsLess(Tail(s), Tail(t))
    ELSE CharRank(Head(s)) < CharRank(Head(t))

RECURSIVE PathChars(_)
\* The string of an absolute path: /ws/a for <<"ws", "a">>.
PathChars(p) ==
    IF p = <<>> THEN <<>>
    ELSE PathChars(SubSeq(p, 1, Len(p) - 1)) \o <<"/">> \o NameChars(p[Len(p)])

\* os.path.join(path, entry): the entry is appended, nothing is normalised.
Join(p, entry) == Append(p, entry)

\* os.path.dirname and os.path.basename
Dirname(p) == SubSeq(p, 1, Len(p) - 1)
Basename(p) == p[Len(p)]

RECURSIVE Normalize(_)
\* os.path.abspath of an absolute path: each ".." drops the entry before it.
Normalize(p) ==
    IF p = <<>> THEN <<>>
    ELSE LET q == Normalize(SubSeq(p, 1, Len(p) - 1))
         IN IF p[Len(p)] = ".."
            THEN (IF q = <<>> THEN <<>> ELSE SubSeq(q, 1, Len(q) - 1))
            ELSE Append(q, p[Len(p)])

RECURSIVE CommonLen(_, _)
CommonLen(p, q) ==
    IF p = <<>> \/ q = <<>> \/ Head(p) # Head(q) THEN 0
    ELSE 1 + CommonLen(Tail(p), Tail(q))

\* os.path.relpath(path, start).split(os.sep): one ".." for each entry of
\* start below the common prefix, then the rest of path.
RelParts(path, start) ==
    LET i == CommonLen(path, start)
        ups == [k \in 1..(Len(start) - i) |-> ".."]
        rest == SubSeq(path, i + 1, Len(path))
    IN IF ups \o rest = <<>> THEN <<".">> ELSE ups \o rest

\* os.path.isdir: the kernel resolves ".." on the way; <<>> is the directory /.
IsDir(f, p) ==
    Normalize(p) = <<>> \/ (Normalize(p) \in f.present /\ Normalize(p) \in DirPaths)

\* Whether os.listdir(p) returns rather than raises.
Listable(f, p) == IsDir(f, p) /\ Normalize(p) \notin f.unlistable

\* os.listdir(p), as a set of entry names.
Listdir(f, p) ==
    {Basename(q) : q \in {r \in f.present : Dirname(r) = Normalize(p)}}

RECURSIVE SortedNames(_)
\* sorted(names)
SortedNames(S) ==
    IF S = {} THEN <<>>
    ELSE LET m == CHOOSE x \in S :
                    \A y \in S \ {x} : CharsLess(NameChars(x), NameChars(y))
         IN <<m>> \o SortedNames(S \ {m})

RECURSIVE SortedPaths(_)
\* sorted(paths), paths being compared as strings
SortedPaths(S) ==
    IF S = {} THEN <<>>
    ELSE LET m == CHOOSE x \in S :
                    \A y \in S \ {x} : CharsLess(PathChars(x), PathChars(y))
         IN <<m>> \o SortedPaths(S \ {m})

\* The text of each file.
Content(p) ==
    CASE p = <<"ws", "b.yml">> -> <<"X">>
      [] p = <<"ws", "a", "c.yml">> -> <<"x", "y">>
      [] p = <<"ws", "a", "n.txt">> -> <<"x">>
      [] p = <<"ws", "a", "d", "e.yml">> -> <<"Y">>
      [] p = <<"ws2", "f.yml">> -> <<"x">>

----------------------------------------------------------------------------
(* Tree nodes: app/browse/tree.py *)

\* A node's data dictionary; a missing key reads as falsy.
NoData == [path |-> <<>>, is_dir |-> FALSE, placeholder |-> FALSE]
DirData(p) == [path |-> p, is_dir |-> TRUE, placeholder |-> FALSE]
FileData(p) == [path |-> p, is_dir |-> FALSE, placeholder |-> FALSE]
PlaceholderData == [path |-> <<>>, is_dir |-> FALSE, placeholder |-> TRUE]

Leaf(d) == [data |-> d, children |-> <<>>]

\* child = node.add(entry, data={path, is_dir: True}); child.add("...", placeholder)
SeededDir(p) == [data |-> DirData(p), children |-> <<Leaf(PlaceholderData)>>]

\* A node is addressed by its position: the child indices on the way from the root.
RECURSIVE NodeAt(_, _)
NodeAt(node, pos) ==
    IF pos = <<>> THEN node ELSE NodeAt(node.children[Head(pos)], Tail(pos))

RECURSIVE ReplaceAt(_, _, _)
ReplaceAt(node, pos, new) ==
    IF pos = <<>> THEN new
    ELSE [node EXCEPT !.children[Head(pos)] = ReplaceAt(@, Tail(pos), new)]

RECURSIVE Positions(_)
Positions(node) ==
    {<<>>} \cup UNION {{<<i>> \o q : q \in Positions(node.children[i])} :
                        i \in DOMAIN node.children}

\* The loop body of add_dir and of the expansion handler: one child per entry.
EntryNode(f, path, entry) ==
    LET full == Join(path, entry)
    IN IF IsDir(f, full) THEN SeededDir(full) ELSE Leaf(FileData(full))

\* EntryNodes with the entries taken in reverse name order.
EntryNodes_Unsorted(f, path) ==
    LET entries == SortedNames(Listdir(f, path))
        n == Len(entries)
    IN [i \in 1..n |-> EntryNode(f, path, entries[n + 1 - i])]

EntryNodes(f, path) ==
    LET entries == SortedNames(Listdir(f, path))
    IN [i \in 1..Len(entries) |-> EntryNode(f, path, entries[i])]

\* build_tree.add_dir
add_dir(node, path, f) ==
    IF ~Listable(f, path) THEN node
    ELSE [node EXCEPT !.children = @ \o EntryNodes(f, path)]

\* build_tree
build_tree(root, start_path, f) ==
    add_dir([root EXCEPT !.data = DirData(start_path)], start_path, f)

NotPlaceholder(child) == ~child.data.placeholder

\* The handler's first loop: every placeholder child is removed.
RemovePlaceholders(node) ==
    [node EXCEPT !.children = SelectSeq(@, NotPlaceholder)]

\* PopulateIfEmpty putting the placeholder back when the listing fails.
PopulateIfEmpty_Reseed(node, f) ==
    IF node.children # <<>> THEN node
    ELSE IF ~Listable(f, node.data.path)
         THEN [node EXCEPT !.children = <<Leaf(PlaceholderData)>>]
    ELSE [node EXCEPT !.children = EntryNodes(f, node.data.path)]

\* The handler's second part: a node left without children is listed.
PopulateIfEmpty(node, f) ==
    IF node.children # <<>> THEN node
    ELSE IF ~Listable(f, node.data.path) THEN node
    ELSE [node EXCEPT !.children = EntryNodes(f, node.data.path)]

\* ExpandNode listing the directory without removing the placeholder first.
ExpandNode_KeepPlaceholder(node, f) ==
    IF node.data.path = <<>> \/ ~node.data.is_dir THEN node
    ELSE IF \E i \in DOMAIN node.children : ~node.children[i].data.placeholder
         THEN node
    ELSE IF ~Listable(f, node.data.path) THEN node
    ELSE [node EXCEPT !.children = @ \o EntryNodes(f, node.data.path)]

\* BrowseApp.on_tree_node_expanded, on one node
ExpandNode(node, f) ==
    IF node.data.path = <<>> \/ ~node.data.is_dir THEN node
    ELSE PopulateIfEmpty(RemovePlaceholders(node), f)

\* BrowseApp.on_tree_node_expanded, on the node at pos of the tree
on_tree_node_expanded(root, pos, f) ==
    ReplaceAt(root, pos, ExpandNode(NodeAt(root, pos), f))

RECURSIVE ExpandOrder(_, _)
\* expand_all._expand: the directory nodes node.expand() is called on, depth
\* first; a node that is no directory is not descended into.
ExpandOrder(node, pos) ==
    IF ~node.data.is_dir THEN <<>>
    ELSE LET sub[i \in 0..Len(node.children)] ==
                 IF i = 0 THEN <<>>
                 ELSE sub[i - 1] \o ExpandOrder(node.children[i], Append(pos, i))
         IN <<pos>> \o sub[Len(node.children)]

RECURSIVE HandleExpanded(_, _, _)
\* The NodeExpanded messages node.expand() posted, handled in the order posted.
HandleExpanded(root, events, f) ==
    IF events = <<>> THEN root
    ELSE HandleExpanded(on_tree_node_expanded(root, Head(events), f), Tail(events), f)

\* expand_all, with the handler Textual runs for each node it expands
expand_all(root, f) == HandleExpanded(root, ExpandOrder(root, <<>>), f)

----------------------------------------------------------------------------
(* build_filtered_tree *)

\* The parent/child pairs one matched file adds to dir_children, in order.
ChainPairs(file_path, start_path) ==
    LET parts == RelParts(file_path, start_path)
        n == Len(parts)
        cur[k \in 0..(n - 1)] ==
            IF k = 0 THEN start_path ELSE Join(cur[k - 1], parts[k])
    IN [k \in 1..n |->
           IF k < n THEN <<cur[k - 1], cur[k]>> ELSE <<cur[n - 1], file_path>>]

\* The matched files the loop does not skip.
UnderStart(file_path, start_path) ==
    StartsWith(PathChars(file_path), PathChars(start_path))

RECURSIVE AllPairs(_, _)
AllPairs(files, start_path) ==
    IF files = <<>> THEN <<>>
    ELSE (IF UnderStart(Head(files), start_path)
          THEN ChainPairs(Head(files), start_path) ELSE <<>>)
         \o AllPairs(Tail(files), start_path)

RECURSIVE KeysOf(_, _)
\* The keys of dir_children in insertion order.
KeysOf(pairs, seen) ==
    IF pairs = <<>> THEN <<>>
    ELSE IF Head(pairs)[1] \in seen THEN KeysOf(Tail(pairs), seen)
    ELSE <<Head(pairs)[1]>> \o KeysOf(Tail(pairs), seen \cup {Head(pairs)[1]})

ChildrenOf(pairs, parent) ==
    {pairs[i][2] : i \in {j \in DOMAIN pairs : pairs[j][1] = parent}}

\* node_map is a set of <<path, position>> pairs.
MapHas(map, path) == \E e \in map : e[1] = path
MapGet(map, path) == (CHOOSE e \in map : e[1] = path)[2]

RECURSIVE ensure_node(_, _)
\* build_filtered_tree.ensure_node, on the state [root, map]
ensure_node(st, path) ==
    IF MapHas(st.map, path) THEN st
    ELSE LET st1 == ensure_node(st, Dirname(path))
             ppos == MapGet(st1.map, Dirname(path))
             parent == NodeAt(st1.root, ppos)
             npos == Append(ppos, Len(parent.children) + 1)
         IN [root |-> ReplaceAt(st1.root, ppos,
                        [parent EXCEPT !.children = Append(@, Leaf(DirData(path)))]),
             map |-> st1.map \cup {<<path, npos>>}]

RECURSIVE AddChildren(_, _, _, _)
\* The inner loop: for child in sorted(children)
AddChildren(st, parent, children, f) ==
    IF children = <<>> THEN st
    ELSE LET child == Head(children)
             ppos == MapGet(st.map, parent)
             pnode == NodeAt(st.root, ppos)
             st1 == IF IsDir(f, child) THEN ensure_node(st, child)
                    ELSE [st EXCEPT !.root = ReplaceAt(st.root, ppos,
                            [pnode EXCEPT !.children = Append(@, Leaf(FileData(child)))])]
         IN AddChildren(st1, parent, Tail(children), f)

RECURSIVE AddParents(_, _, _, _)
\* The outer loop: for parent, children in dir_children.items()
AddParents(st, keys, pairs, f) ==
    IF keys = <<>> THEN st
    ELSE AddParents(
             AddChildren(ensure_node(st, Head(keys)), Head(keys),
                         SortedPaths(ChildrenOf(pairs, Head(keys))), f),
             Tail(keys), pairs, f)

\* build_filtered_tree.  The set of matched paths is iterated in sorted order:
\* every key of dir_children is inserted after its parent's key in any order,
\* so the tree built does not depend on it.
build_filtered_tree(root, start_path0, matched, f) ==
    LET start_path == Normalize(start_path0)
        matched_set == {Normalize(p) : p \in matched}
        pairs == AllPairs(SortedPaths(matched_set), start_path)
        st0 == [root |-> [root EXCEPT !.data = DirData(start_path)],
                map |-> {<<start_path, <<>>>>}]
    IN AddParents(st0, KeysOf(pairs, {}), pairs, f).root

----------------------------------------------------------------------------
(* The browse session: app/browse/app.py *)

\* File-system events the session may see between two of its handlers.
MaxFsEvents == 2

\* What the user may type into the search input.
InputValues == {<<" ">>, <<" ", "x", " ">>, <<"Y">>, <<"z">>}

\* Whether open(path).read() returns rather than raises.
Readable(f, p) == p \in f.present /\ p \in FilePaths /\ p \notin f.unreadable

RECURSIVE Walk(_, _)
\* os.walk(top): the files of top, then each subdirectory in turn; a directory
\* that cannot be listed is passed over (os.walk's default onerror).
Walk(f, top) ==
    IF ~Listable(f, top) THEN <<>>
    ELSE LET entries == SortedNames(Listdir(f, top))
             IsFileEntry(e) == ~IsDir(f, Join(top, e))
             IsDirEntry(e) == IsDir(f, Join(top, e))
             files == SelectSeq(entries, IsFileEntry)
             dirs == SelectSeq(entries, IsDirEntry)
             sub[i \in 0..Len(dirs)] ==
                 IF i = 0 THEN <<>> ELSE sub[i - 1] \o Walk(f, Join(top, dirs[i]))
         IN [i \in 1..Len(files) |-> Join(top, files[i])] \o sub[Len(dirs)]

YmlSuffix == <<".", "y", "m", "l">>

\* The test _scan_for_term makes of one walked file.
TermInFile(f, path, term) ==
    /\ EndsWith(NameChars(Basename(path)), YmlSuffix)
    /\ Readable(f, path)
    /\ Contains(Lower(Content(path)), Lower(term))

\* BrowseApp._scan_for_term
scan_for_term(f, term) ==
    LET Hit(path) == TermInFile(f, path, term)
    IN SelectSeq(Walk(f, RootDir), Hit)

SeqRange(s) == {s[i] : i \in DOMAIN s}

\* BrowseApp._rebuild_tree: the tree and matched_files it leaves.
rebuild_tree(root, term, f) ==
    LET cleared == [root EXCEPT !.children = <<>>]
    IN IF term # None
       THEN LET matched == scan_for_term(f, term)
            IN [matched |-> matched,
                tree |-> expand_all(
                    build_filtered_tree(cleared, RootDir, SeqRange(matched), f), f)]
       ELSE [matched |-> <<>>, tree |-> build_tree(cleared, RootDir, f)]

\* term = event.value.strip(); self.search_term = term or None
TermOf(value) == IF Strip(value) = <<>> THEN None ELSE Strip(value)

InitFs == [present |-> Universe, unlistable |-> {}, unreadable |-> {}]

InitTree ==
    /\ fs = InitFs
    /\ tree = Leaf(NoData)
    /\ search_term = None
    /\ matched_files = <<>>
    /\ mounted = FALSE
    /\ last = [op |-> "init", pos |-> <<>>]
    /\ budget = MaxFsEvents
    /\ hl = Idle /\ fmt = Idle /\ search = Idle /\ schema = Idle /\ MoreIdle

\* BrowseApp.on_mount
Mount ==
    /\ ~mounted
    /\ tree' = build_tree(tree, RootDir, fs)
    /\ mounted' = TRUE
    /\ last' = [op |-> "build", pos |-> <<>>]
    /\ UNCHANGED <<fs, search_term, matched_files, budget>>
    /\ UNCHANGED othersTree

\* BrowseApp.on_tree_node_expanded, for the node at pos
NodeExpanded(pos) ==
    /\ mounted
    /\ tree' = on_tree_node_expanded(tree, pos, fs)
    /\ last' = [op |-> "expand", pos |-> pos]
    /\ UNCHANGED <<fs, search_term, matched_files, mounted, budget>>
    /\ UNCHANGED othersTree

\* BrowseApp.on_input_changed
InputChanged(value) ==
    /\ mounted
    /\ LET r == rebuild_tree(tree, TermOf(value), fs)
       IN /\ search_term' = TermOf(value)
          /\ matched_files' = r.matched
          /\ tree' = r.tree
    /\ last' = [op |-> "changed", pos |-> <<>>]
    /\ UNCHANGED <<fs, mounted, budget>>
    /\ UNCHANGED othersTree

\* BrowseApp.on_input_submitted (the viewer it resets is not modelled)
InputSubmitted(value) ==
    /\ mounted
    /\ LET r == rebuild_tree(tree, TermOf(value), fs)
       IN /\ search_term' = TermOf(value)
          /\ matched_files' = r.matched
          /\ tree' = r.tree
    /\ last' = [op |-> "submitted", pos |-> <<>>]
    /\ UNCHANGED <<fs, mounted, budget>>
    /\ UNCHANGED othersTree

\* BrowseApp.action_refresh
Refresh ==
    /\ mounted
    /\ LET r == rebuild_tree(tree, None, fs)
       IN /\ search_term' = None
          /\ matched_files' = r.matched
          /\ tree' = r.tree
    /\ last' = [op |-> "refresh", pos |-> <<>>]
    /\ UNCHANGED <<fs, mounted, budget>>
    /\ UNCHANGED othersTree

\* The entries below the session's root, which other processes may change.
Mutable == {p \in Universe : Len(p) > 1 /\ p[1] = RootDir[1]}

\* An entry, with everything below it, is deleted.
FsRemove(p) ==
    /\ budget > 0
    /\ p \in fs.present
    /\ fs' = [fs EXCEPT !.present = {q \in @ : ~(Len(q) >= Len(p) /\ SubSeq(q, 1, Len(p)) = p)}]
    /\ budget' = budget - 1
    /\ last' = [op |-> "fs", pos |-> <<>>]
    /\ UNCHANGED <<tree, search_term, matched_files, mounted>>
    /\ UNCHANGED othersTree

\* An entry is created in a directory that exists.
FsCreate(p) ==
    /\ budget > 0
    /\ p \notin fs.present
    /\ Dirname(p) \in fs.present
    /\ fs' = [fs EXCEPT !.present = @ \cup {p}]
    /\ budget' = budget - 1
    /\ last' = [op |-> "fs", pos |-> <<>>]
    /\ UNCHANGED <<tree, search_term, matched_files, mounted>>
    /\ UNCHANGED othersTree

\* A directory's permissions stop it from being listed.
FsDeny(d) ==
    /\ budget > 0
    /\ d \in fs.present /\ d \notin fs.unlistable
    /\ fs' = [fs EXCEPT !.unlistable = @ \cup {d}]
    /\ budget' = budget - 1
    /\ last' = [op |-> "fs", pos |-> <<>>]
    /\ UNCHANGED <<tree, search_term, matched_files, mounted>>
    /\ UNCHANGED othersTree

\* A file's permissions stop it from being read.
FsProtect(p) ==
    /\ budget > 0
    /\ p \in fs.present /\ p \notin fs.unreadable
    /\ fs' = [fs EXCEPT !.unreadable = @ \cup {p}]
    /\ budget' = budget - 1
    /\ last' = [op |-> "fs", pos |-> <<>>]
    /\ UNCHANGED <<tree, search_term, matched_files, mounted>>
    /\ UNCHANGED othersTree

NextTree ==
    \/ Mount
    \/ \E pos \in Positions(tree) : NodeExpanded(pos)
    \/ \E value \in InputValues : InputChanged(value)
    \/ \E value \in InputValues : InputSubmitted(value)
    \/ Refresh
    \/ \E p \in Mutable : FsRemove(p)
    \/ \E p \in Mutable : FsCreate(p)
    \/ \E d \in (DirPaths \cap Mutable) \cup {RootDir} : FsDeny(d)
    \/ \E p \in FilePaths \cap Mutable : FsProtect(p)

SpecTree == InitTree /\ [][NextTree]_vars

----------------------------------------------------------------------------
(* build_filtered_tree on any root and any set of matched files *)

\* The roots a filtered tree is built on.
Roots == {<<"ws">>, <<"ws", "a">>, <<"ws2">>}

\* A file system in which every entry's directory exists.
ValidPresent(S) ==
    /\ {<<"ws">>, <<"ws2">>} \subseteq S
    /\ \A p \in S : Len(p) > 1 => Dirname(p) \in S

InitFiltered ==
    /\ fs \in {[present |-> S, unlistable |-> {}, unreadable |-> {}] :
                 S \in {T \in SUBSET Universe : ValidPresent(T)}}
    /\ tree = Leaf(NoData)
    /\ search_term = None
    /\ matched_files = <<>>
    /\ mounted = FALSE
    /\ last = [op |-> "init", root |-> <<>>]
    /\ budget = 0
    /\ hl = Idle /\ fmt = Idle /\ search = Idle /\ schema = Idle /\ MoreIdle

\* build_filtered_tree(tree, root, M) on a cleared tree
BuildFiltered(root, M) ==
    /\ last.op = "init"
    /\ tree' = build_filtered_tree(Leaf(NoData), root, M, fs)
    /\ matched_files' = SortedPaths(M)
    /\ last' = [op |-> "filtered", root |-> root]
    /\ UNCHANGED <<fs, search_term, mounted, budget>>
    /\ UNCHANGED othersTree

NextFiltered ==
    \E root \in Roots : \E M \in SUBSET (FilePaths \cap fs.present) :
        BuildFiltered(root, M)

SpecFiltered == InitFiltered /\ [][NextFiltered]_vars

----------------------------------------------------------------------------
(* Node states *)

IsDirNode(n) == n.data.is_dir /\ ~n.data.placeholder
IsFileNode(n) == ~n.data.is_dir /\ ~n.data.placeholder

\* A directory node holding a single placeholder and nothing else.
Unloaded(n) ==
    IsDirNode(n) /\ Len(n.children) = 1 /\ n.children[1].data.placeholder

\* A directory node holding no placeholder.
Loaded(n) ==
    IsDirNode(n) /\ \A i \in DOMAIN n.children : ~n.children[i].data.placeholder

\* A file node without children.
LeafNode(n) == IsFileNode(n) /\ n.children = <<>>

\* p is an entry somewhere below directory d.
Below(p, d) == Len(p) > Len(d) /\ SubSeq(p, 1, Len(d)) = d

\* The step just taken was the expansion handler on a node of the old tree.
ExpandStep == last'.op = "expand" /\ last'.pos \in Positions(tree)

\* The children the directory at path shows once listed: one per entry, in
\* name order, subdirectories seeded with one placeholder, files bare.
ShowsListing(n, f, path) ==
    /\ Len(n.children) = Cardinality(Listdir(f, path))
    /\ {n.children[i].data.path : i \in DOMAIN n.children}
          = {Join(path, e) : e \in Listdir(f, path)}
    /\ \A i, j \in DOMAIN n.children :
          i < j => CharsLess(NameChars(Basename(n.children[i].data.path)),
                             NameChars(Basename(n.children[j].data.path)))
    /\ \A i \in DOMAIN n.children :
          LET c == n.children[i]
          IN IF IsDir(f, c.data.path)
             THEN Unloaded(c) /\ c.children[1].children = <<>>
             ELSE LeafNode(c)

\* C1 as stated: expanding an Unloaded directory node always leaves it with
\* exactly the directory's entries, name-sorted, subdirectories seeded with one
\* placeholder and files without children.
C1_ExpandShowsEntries ==
    [][(ExpandStep /\ Unloaded(NodeAt(tree, last'.pos)))
         => ShowsListing(NodeAt(tree', last'.pos), fs,
                         NodeAt(tree, last'.pos).data.path)]_vars

\* C1 amended: expanding an Unloaded directory node whose directory can be
\* listed leaves it with exactly the directory's entries, name-sorted,
\* subdirectories seeded with one placeholder and files without children.
C1_ExpandListableShowsEntries ==
    [][(/\ ExpandStep
        /\ Unloaded(NodeAt(tree, last'.pos))
        /\ Listable(fs, NodeAt(tree, last'.pos).data.path))
         => ShowsListing(NodeAt(tree', last'.pos), fs,
                         NodeAt(tree, last'.pos).data.path)]_vars

\* An expansion has just populated a directory with a subdirectory and a file.
C1_Witness ==
    /\ last.op = "expand"
    /\ last.pos \in Positions(tree)
    /\ LET n == NodeAt(tree, last.pos)
       IN /\ Loaded(n)
          /\ Listable(fs, n.data.path)
          /\ \E i, j \in DOMAIN n.children :
                Unloaded(n.children[i]) /\ LeafNode(n.children[j])

\* C2: re-expanding a Loaded directory node (with children, or with none
\* because the directory was empty or unlistable) changes nothing, whatever
\* the directory holds by then.
C2_ReExpandIsNoOp ==
    [][(ExpandStep /\ Loaded(NodeAt(tree, last'.pos))) => tree' = tree]_vars

NodeStateOK(n) ==
    IF n.data.placeholder THEN n.children = <<>>
    ELSE LeafNode(n) \/ Unloaded(n) \/ Loaded(n)

\* Every node is a Leaf, an Unloaded directory or a Loaded directory.
AllNodeStatesOK ==
    mounted => \A pos \in Positions(tree) : NodeStateOK(NodeAt(tree, pos))

\* The step just taken recreated the tree.
RebuildStep == last'.op \in {"changed", "submitted", "refresh"}

\* C4: every node is a childless file (Leaf), a directory whose only child is
\* one placeholder (Unloaded) or a directory with no placeholder among its
\* children (Loaded); and a Loaded directory stays Loaded unless the tree is
\* rebuilt.
C4_NodeStates ==
    /\ []AllNodeStatesOK
    /\ [][~RebuildStep =>
            \A pos \in Positions(tree) :
                Loaded(NodeAt(tree, pos)) =>
                    pos \in Positions(tree') /\ Loaded(NodeAt(tree', pos))]_vars

\* After an expansion the tree holds a Leaf, an Unloaded and a Loaded node
\* below the root.
C4_Witness ==
    /\ last.op = "expand"
    /\ \E p, q, r \in Positions(tree) \ {<<>>} :
          /\ LeafNode(NodeAt(tree, p))
          /\ Unloaded(NodeAt(tree, q))
          /\ Loaded(NodeAt(tree, r))

\* The handler lists the directory: no real child is left once the
\* placeholders are gone.
ListsDirectory(n) ==
    IsDirNode(n) /\ n.data.path # <<>>
    /\ \A i \in DOMAIN n.children : n.children[i].data.placeholder

\* C5: when listing fails in Expand, the node ends with zero children and the
\* rest of the tree is as before; when listing the root fails in Build, the
\* root ends with zero children.
C5_ListFailureEmpties ==
    /\ [][(/\ ExpandStep
           /\ ListsDirectory(NodeAt(tree, last'.pos))
           /\ ~Listable(fs, NodeAt(tree, last'.pos).data.path))
            => /\ NodeAt(tree', last'.pos).children = <<>>
               /\ tree' = ReplaceAt(tree, last'.pos,
                     [NodeAt(tree, last'.pos) EXCEPT !.children = <<>>])]_vars
    /\ [][(/\ last'.op \in {"build", "refresh", "changed", "submitted"}
           /\ search_term' = None
           /\ ~Listable(fs, RootDir))
            => tree' = Leaf(DirData(RootDir))]_vars

\* An expansion has just failed to list a directory that has entries: the node
\* is left empty beside its siblings.
C5_Witness ==
    /\ last.op = "expand"
    /\ last.pos \in Positions(tree) \ {<<>>}
    /\ LET n == NodeAt(tree, last.pos)
       IN /\ IsDirNode(n) /\ n.children = <<>>
          /\ ~Listable(fs, n.data.path)
          /\ IsDir(fs, n.data.path)
          /\ Listdir(fs, n.data.path) # {}
    /\ Len(tree.children) > 1

\* The paths of a tree's file nodes and of its directory nodes below the root.
FileNodePaths(root) ==
    {NodeAt(root, pos).data.path :
        pos \in {q \in Positions(root) : IsFileNode(NodeAt(root, q))}}
DirNodePaths(root) ==
    {NodeAt(root, pos).data.path :
        pos \in {q \in Positions(root) \ {<<>>} : IsDirNode(NodeAt(root, q))}}

\* C3: the filtered tree's file nodes are exactly the matched files below the
\* root, and its directory nodes exactly their ancestors below the root.
C3_FilteredIsProjection ==
    last.op = "filtered" =>
        LET under == {p \in SeqRange(matched_files) : Below(p, last.root)}
        IN /\ FileNodePaths(tree) = under
           /\ DirNodePaths(tree) =
                 {d \in DirPaths : Below(d, last.root) /\ \E p \in under : Below(p, d)}

----------------------------------------------------------------------------
(* Display formatting: app/browse/formatting.py *)

\* Rich markup tags are single elements of the output.
MarkOpen == "[bold red]"
MarkClose == "[/bold red]"

RECURSIVE HighlightLoop(_, _, _, _, _)
\* The while loop of _highlight, from one value of start to the end.
HighlightLoop(value, lower_val, lower_term, term, start) ==
    LET idx == Find(lower_val, lower_term, start)
    IN IF idx = -1 THEN Slice(value, start, Len(value))
       ELSE Slice(value, start, idx)
            \o <<MarkOpen>> \o Slice(value, idx, idx + Len(term)) \o <<MarkClose>>
            \o HighlightLoop(value, lower_val, lower_term, term, idx + Len(term))

\* _highlight(value, term)
highlight(value, term) ==
    IF term = None \/ term = <<>> THEN value
    ELSE HighlightLoop(value, Lower(value), Lower(term), term, 0)

\* The longest value and the longest term _highlight is called with.
MaxTextLen == 3
MaxTermLen == 2

\* The characters of values and terms.
HlChars == {"a", "A", "b", "Idot"}

RECURSIVE Strings(_, _)
\* Every text over the characters, up to a length.
Strings(chars, n) ==
    IF n = 0 THEN {<<>>}
    ELSE LET shorter == Strings(chars, n - 1)
         IN shorter \cup {Append(t, c) : t \in shorter, c \in chars}

InitHighlight ==
    /\ hl \in {[value |-> v, term |-> t, out |-> None, called |-> FALSE] :
                 v \in Strings(HlChars, MaxTextLen),
                 t \in Strings(HlChars, MaxTermLen) \cup {None}}
    /\ fs = InitFs /\ tree = Leaf(NoData) /\ search_term = None
    /\ matched_files = <<>> /\ mounted = FALSE
    /\ last = [op |-> Idle] /\ budget = 0
    /\ fmt = Idle /\ search = Idle /\ schema = Idle /\ MoreIdle

\* One call of _highlight.
Highlight ==
    /\ ~hl.called
    /\ hl' = [hl EXCEPT !.out = highlight(hl.value, hl.term), !.called = TRUE]
    /\ UNCHANGED <<varsTree, fmt, search, schema, varsMore>>

NextHighlight == Highlight

SpecHighlight == InitHighlight /\ [][NextHighlight]_vars

\* term occurs in value at 1-based position i, case aside.
OccursAt(value, term, i) ==
    /\ i >= 1 /\ i + Len(term) - 1 <= Len(value)
    /\ Lower(SubSeq(value, i, i + Len(term) - 1)) = Lower(term)

RECURSIVE MarkFrom(_, _, _)
\* value from position i on, with each occurrence of term found left to right
\* marked, the scan resuming right after each marked span.
MarkFrom(value, term, i) ==
    IF i > Len(value) THEN <<>>
    ELSE IF OccursAt(value, term, i)
         THEN <<MarkOpen>> \o SubSeq(value, i, i + Len(term) - 1) \o <<MarkClose>>
              \o MarkFrom(value, term, i + Len(term))
    ELSE <<value[i]>> \o MarkFrom(value, term, i + 1)

\* C6: Highlight marks exactly the occurrences of a non-empty term found
\* scanning left to right case-insensitively, resuming after each marked span,
\* and leaves every other character in place; with an empty or absent term it
\* returns the text unchanged.
C6_HighlightMarksOccurrences ==
    hl.called =>
        IF hl.term = None \/ hl.term = <<>> THEN hl.out = hl.value
        ELSE hl.out = MarkFrom(hl.value, hl.term, 1)

----------------------------------------------------------------------------
(* format_yaml_object *)

\* A YAML-loaded object: a scalar (its text), a dict (its items in order, each
\* a key and a value) or a list (its items).
Scalar(text) == [kind |-> "scalar", text |-> text]
Dict(items) == [kind |-> "dict", items |-> items]
List(items) == [kind |-> "list", items |-> items]

IsContainer(v) == v.kind \in {"dict", "list"}

RECURSIVE Pad(_)
\* "  " * indent
Pad(indent) == IF indent = 0 THEN <<>> ELSE <<" ", " ">> \o Pad(indent - 1)

RECURSIVE JoinLines(_)
\* "\n".join(lines)
JoinLines(lines) ==
    IF lines = <<>> THEN <<>>
    ELSE IF Len(lines) = 1 THEN lines[1]
    ELSE lines[1] \o <<"\n">> \o JoinLines(Tail(lines))

RECURSIVE format_yaml_object(_, _, _)
\* format_yaml_object(obj, indent, search_term).  The recursive calls pass no
\* search_term, so it takes its default, None.
format_yaml_object(obj, indent, term) ==
    LET pad == Pad(indent)
        DictLines(item) ==
            IF IsContainer(item[2])
            THEN <<pad \o <<"[bold blue]">> \o item[1] \o <<"[/bold blue]", ":">>,
                   format_yaml_object(item[2], indent + 1, None)>>
            ELSE <<pad \o <<"[blue]">> \o item[1] \o <<"[/blue]", ":", " ", "[green]">>
                       \o highlight(item[2].text, term) \o <<"[/green]">>>>
        ListLines(item) ==
            IF IsContainer(item)
            THEN <<pad \o <<"-">>, format_yaml_object(item, indent + 1, None)>>
            ELSE <<pad \o <<"-", " ", "[green]">>
                       \o highlight(item.text, term) \o <<"[/green]">>>>
        dlines[i \in 0..Len(obj.items)] ==
            IF i = 0 THEN <<>> ELSE dlines[i - 1] \o DictLines(obj.items[i])
        llines[i \in 0..Len(obj.items)] ==
            IF i = 0 THEN <<>> ELSE llines[i - 1] \o ListLines(obj.items[i])
    IN CASE obj.kind = "dict" ->
              IF obj.items = <<>> THEN pad \o <<"[dim]", "<empty dict>", "[/dim]">>
              ELSE JoinLines(dlines[Len(obj.items)])
         [] obj.kind = "list" ->
              IF obj.items = <<>> THEN pad \o <<"[dim]", "<empty list>", "[/dim]">>
              ELSE JoinLines(llines[Len(obj.items)])
         [] OTHER ->
              pad \o <<"[green]">> \o highlight(obj.text, term) \o <<"[/green]">>

\* How many containers an object is wrapped in at most.
MaxDepth == 2

\* Objects without nesting, and the ways of nesting an object in a container.
FlatObjects ==
    {Scalar(<<"a">>), Scalar(<<"b", "A">>), Dict(<<>>), List(<<>>),
     Dict(<<<<<<"k">>, Scalar(<<"a">>)>>>>),
     Dict(<<<<<<"k">>, Scalar(<<"b">>)>>, <<<<"j">>, Scalar(<<"a", "a">>)>>>>),
     List(<<Scalar(<<"a">>)>>), List(<<Scalar(<<"b">>), Scalar(<<"A">>)>>)}

Wrappings(v) ==
    {Dict(<<<<<<"k">>, v>>>>), Dict(<<<<<<"k">>, Scalar(<<"a">>)>>, <<<<"j">>, v>>>>),
     List(<<v>>), List(<<Scalar(<<"a">>), v>>)}

RECURSIVE Objects(_)
Objects(depth) ==
    IF depth = 0 THEN FlatObjects
    ELSE Objects(depth - 1) \cup UNION {Wrappings(v) : v \in Objects(depth - 1)}

FormatTerms == {None, <<>>, <<"a">>, <<"A">>}

InitFormat ==
    /\ fmt \in {[obj |-> o, term |-> t, out |-> None, called |-> FALSE] :
                  o \in Objects(MaxDepth), t \in FormatTerms}
    /\ fs = InitFs /\ tree = Leaf(NoData) /\ search_term = None
    /\ matched_files = <<>> /\ mounted = FALSE
    /\ last = [op |-> Idle] /\ budget = 0
    /\ hl = Idle /\ search = Idle /\ schema = Idle /\ MoreIdle

\* YamlViewer.watch_file_path: format_yaml_object(data, search_term=...)
Format ==
    /\ ~fmt.called
    /\ fmt' = [fmt EXCEPT !.out = format_yaml_object(fmt.obj, 0, fmt.term),
                          !.called = TRUE]
    /\ UNCHANGED <<varsTree, hl, search, schema, varsMore>>

NextFormat == Format

SpecFormat == InitFormat /\ [][NextFormat]_vars

RECURSIVE Rendering(_, _, _)
\* The rendering in which the scalars of every nesting level are highlighted
\* and each level is indented one step more than its parent.
Rendering(obj, indent, term) ==
    LET pad == Pad(indent)
        Shown(text) == <<"[green]">> \o highlight(text, term) \o <<"[/green]">>
        DictLines(item) ==
            IF IsContainer(item[2])
            THEN <<pad \o <<"[bold blue]">> \o item[1] \o <<"[/bold blue]", ":">>,
                   Rendering(item[2], indent + 1, term)>>
            ELSE <<pad \o <<"[blue]">> \o item[1] \o <<"[/blue]", ":", " ">>
                       \o Shown(item[2].text)>>
        ListLines(item) ==
            IF IsContainer(item)
            THEN <<pad \o <<"-">>, Rendering(item, indent + 1, term)>>
            ELSE <<pad \o <<"-", " ">> \o Shown(item.text)>>
        lines[i \in 0..Len(obj.items)] ==
            IF i = 0 THEN <<>>
            ELSE lines[i - 1] \o (IF obj.kind = "dict" THEN DictLines(obj.items[i])
                                  ELSE ListLines(obj.items[i]))
    IN IF ~IsContainer(obj) THEN pad \o Shown(obj.text)
       ELSE IF obj.items = <<>>
            THEN pad \o <<"[dim]">>
                 \o (IF obj.kind = "dict" THEN <<"<empty dict>">> ELSE <<"<empty list>">>)
                 \o <<"[/dim]">>
       ELSE JoinLines(lines[Len(obj.items)])

\* C7: FormatContent highlights the term in every scalar it displays, at every
\* nesting depth, each level indented one step deeper than its parent.
C7_FormatHighlightsEveryDepth ==
    fmt.called => fmt.out = Rendering(fmt.obj, 0, fmt.term)

----------------------------------------------------------------------------
(* The search command: app/commands/search.py *)

\* s.split(":", 1) of a text that holds a colon: the parts before and after
\* the first one.
BeforeColon(line) == Slice(line, 0, Find(line, <<":">>, 0))
AfterColon(line) == Slice(line, Find(line, <<":">>, 0) + 1, Len(line))

\* The key and value of a key/value line, the text of a list-item line.
KeyOf(line) == Strip(BeforeColon(line))
ValOf(line) == Strip(AfterColon(line))
ItemOf(line) == Strip(Slice(Strip(line), 2, Len(Strip(line))))

Match(idx, prop, text) == [line |-> idx, prop |-> prop, value |-> text]

\* scan_line with last_key kept after a key/value line that has a value.
scan_line_KeepsKey(st, idx, line, term) ==
    LET stripped == Strip(line)
    IN IF stripped = <<>> \/ StartsWith(stripped, <<"#">>) THEN st
       ELSE IF Contains(line, <<":">>)
            THEN IF ValOf(line) = <<>> THEN [st EXCEPT !.last_key = KeyOf(line)]
                 ELSE [st EXCEPT !.matches =
                           IF Contains(Lower(ValOf(line)), term)
                           THEN Append(@, Match(idx, KeyOf(line), ValOf(line)))
                           ELSE @]
       ELSE IF StartsWith(stripped, <<"-", " ">>)
            THEN [st EXCEPT !.matches =
                      IF Contains(Lower(ItemOf(line)), term)
                      THEN Append(@, Match(idx, st.last_key, ItemOf(line)))
                      ELSE @]
       ELSE st

\* The body of run's loop over the lines of a file, on the state
\* [matches, last_key]; term is already lower case.
scan_line(st, idx, line, term) ==
    LET stripped == Strip(line)
    IN IF stripped = <<>> \/ StartsWith(stripped, <<"#">>) THEN st
       ELSE IF Contains(line, <<":">>)
            THEN IF ValOf(line) = <<>> THEN [st EXCEPT !.last_key = KeyOf(line)]
                 ELSE [st EXCEPT !.matches =
                           IF Contains(Lower(ValOf(line)), term)
                           THEN Append(@, Match(idx, KeyOf(line), ValOf(line)))
                           ELSE @,
                                 !.last_key = None]
       ELSE IF StartsWith(stripped, <<"-", " ">>)
            THEN [st EXCEPT !.matches =
                      IF Contains(Lower(ItemOf(line)), term)
                      THEN Append(@, Match(idx, st.last_key, ItemOf(line)))
                      ELSE @]
       ELSE st

\* The most lines of a file, and the most files of a workspace.
MaxLines == 3
MaxFiles == 2

\* Lines as f.readlines() returns them.
SmallLines ==
    {<<"\n">>,
     <<"#", " ", "g", "\n">>,
     <<"k", ":", "\n">>,
     <<"j", ":", " ", "G", "\n">>,
     <<"j", ":", " ", "b", "\n">>,
     <<" ", "-", " ", "g", "\n">>,
     <<"-", " ", "k", ":", "g", "\n">>,
     <<"g", "\n">>}

SmallTerms == {<<"g">>, <<"G">>, <<>>}

\* The file of the specification's example, and its terms.
ExampleLines ==
    <<<<"n", "a", "m", "e", ":", " ", "A", "l", "i", "c", "e", " ", "S", "m", "i", "t", "h", "\n">>,
      <<"t", "a", "g", "s", ":", "\n">>,
      <<"-", " ", "b", "l", "u", "e", "\n">>,
      <<"-", " ", "g", "r", "e", "e", "n", "\n">>>>
TermGreen == <<"g", "r", "e", "e", "n">>
TermAlice == <<"a", "l", "i", "c", "e">>

RECURSIVE Seqs(_, _)
\* Every sequence of elements of S, up to a length.
Seqs(S, n) ==
    IF n = 0 THEN {<<>>}
    ELSE LET shorter == Seqs(S, n - 1)
         IN shorter \cup {Append(t, x) : t \in shorter, x \in S}

WalkedFile(name, lines, readable) ==
    [name |-> name, lines |-> lines, readable |-> readable]

\* The files os.walk may find in a workspace of several files.
SomeFiles ==
    {WalkedFile(f[1], f[2], r) :
        f \in {<<"p.yml", ExampleLines>>,
               <<"q.yml", <<<<"k", ":", "\n">>, <<" ", "-", " ", "g", "\n">>>>>>,
               <<"n.txt", <<<<"j", ":", " ", "G", "\n">>>>>>,
               <<"r.yml", <<<<"j", ":", " ", "b", "\n">>>>>>},
        r \in BOOLEAN}

\* A run's inputs: one file of any lines with a short term, or several files
\* with a short term or a term of the example.
SearchInputs ==
    {[walked |-> <<WalkedFile("p.yml", ls, r)>>, ns_term |-> t, workspace |-> <<"ws">>] :
        ls \in Seqs(SmallLines, MaxLines), r \in BOOLEAN, t \in SmallTerms}
    \cup
    {[walked |-> w, ns_term |-> t, workspace |-> ws] :
        w \in Seqs(SomeFiles, MaxFiles), t \in {<<"g">>, TermGreen, TermAlice},
        ws \in {<<"ws">>, None}}

InitSearch ==
    /\ search \in {[walked |-> in.walked, ns_term |-> in.ns_term,
                    workspace |-> in.workspace,
                    pc |-> "start", yml_files |-> <<>>, term |-> <<>>, fi |-> 1,
                    lines |-> <<>>, idx |-> 1, matches |-> <<>>, last_key |-> None,
                    found_any |-> FALSE, out |-> <<>>, warnings |-> <<>>,
                    no_matches |-> FALSE, rc |-> -1] : in \in SearchInputs}
    /\ fs = InitFs /\ tree = Leaf(NoData) /\ search_term = None
    /\ matched_files = <<>> /\ mounted = FALSE
    /\ last = [op |-> Idle] /\ budget = 0
    /\ hl = Idle /\ fmt = Idle /\ schema = Idle /\ MoreIdle

IsYml(file) == EndsWith(NameChars(file.name), YmlSuffix)

\* (rc is -1 until run returns.)
\* run, up to the loop over the files: the workspace test, the walk that keeps
\* the .yml files, and term = ns.term.lower().
Start ==
    /\ search.pc = "start"
    /\ search' =
         IF search.workspace = None
         THEN [search EXCEPT !.rc = 1, !.pc = "done"]
         ELSE [search EXCEPT !.yml_files = SelectSeq(search.walked, IsYml),
                             !.term = Lower(search.ns_term),
                             !.pc = "open"]
    /\ UNCHANGED <<varsTree, hl, fmt, schema, varsMore>>

\* OpenFile giving the batch up at the first file that cannot be read.
OpenFile_Abort ==
    /\ search.pc = "open"
    /\ search.fi <= Len(search.yml_files)
    /\ search' =
         IF ~search.yml_files[search.fi].readable
         THEN [search EXCEPT !.warnings = Append(@, search.yml_files[search.fi].name),
                             !.fi = Len(search.yml_files) + 1]
         ELSE [search EXCEPT !.lines = search.yml_files[search.fi].lines,
                             !.matches = <<>>, !.last_key = None, !.idx = 1,
                             !.pc = "scan"]
    /\ UNCHANGED <<varsTree, hl, fmt, schema, varsMore>>

\* The head of the loop over the files: the file is read, or a warning is
\* printed and the loop goes on to the next file.
OpenFile ==
    /\ search.pc = "open"
    /\ search.fi <= Len(search.yml_files)
    /\ search' =
         IF ~search.yml_files[search.fi].readable
         THEN [search EXCEPT !.warnings = Append(@, search.yml_files[search.fi].name),
                             !.fi = @ + 1]
         ELSE [search EXCEPT !.lines = search.yml_files[search.fi].lines,
                             !.matches = <<>>, !.last_key = None, !.idx = 1,
                             !.pc = "scan"]
    /\ UNCHANGED <<varsTree, hl, fmt, schema, varsMore>>

\* One turn of the loop over the lines.
ScanLine ==
    /\ search.pc = "scan"
    /\ search.idx <= Len(search.lines)
    /\ LET st == scan_line([matches |-> search.matches, last_key |-> search.last_key],
                           search.idx, search.lines[search.idx], search.term)
       IN search' = [search EXCEPT !.matches = st.matches, !.last_key = st.last_key,
                                   !.idx = @ + 1]
    /\ UNCHANGED <<varsTree, hl, fmt, schema, varsMore>>

\* The end of the loop over the files: the file's matches are printed.
Report ==
    /\ search.pc = "scan"
    /\ search.idx > Len(search.lines)
    /\ search' =
         IF search.matches # <<>>
         THEN [search EXCEPT !.found_any = TRUE,
                             !.out = Append(@, [file |-> search.yml_files[search.fi].name,
                                                matches |-> search.matches]),
                             !.fi = @ + 1, !.pc = "open"]
         ELSE [search EXCEPT !.fi = @ + 1, !.pc = "open"]
    /\ UNCHANGED <<varsTree, hl, fmt, schema, varsMore>>

\* After the loop: "No matches found" when nothing matched; return 0.
Finish ==
    /\ search.pc = "open"
    /\ search.fi > Len(search.yml_files)
    /\ search' = [search EXCEPT !.no_matches = ~search.found_any,
                                !.rc = 0, !.pc = "done"]
    /\ UNCHANGED <<varsTree, hl, fmt, schema, varsMore>>

NextSearch == Start \/ OpenFile \/ ScanLine \/ Report \/ Finish

SpecSearch == InitSearch /\ [][NextSearch]_vars

\* The kinds of line the scan tells apart.
Skipped(line) == Strip(line) = <<>> \/ Strip(line)[1] = "#"
KeyValue(line) == ~Skipped(line) /\ \E i \in DOMAIN line : line[i] = ":"
ListItem(line) ==
    /\ ~Skipped(line) /\ ~KeyValue(line)
    /\ Len(Strip(line)) >= 2 /\ Strip(line)[1] = "-" /\ Strip(line)[2] = " "

\* text contains term, case aside.
ContainsCI(text, term) ==
    \E i \in 0..Len(Lower(text)) :
        /\ i + Len(Lower(term)) <= Len(Lower(text))
        /\ SubSeq(Lower(text), i + 1, i + Len(Lower(term))) = Lower(term)

\* The context key in force at line i of lines: the key of the nearest
\* key/value line above, when that line has an empty value.
ContextAt(lines, i) ==
    LET above == {j \in 1..(i - 1) : KeyValue(lines[j])}
    IN IF above = {} THEN None
       ELSE LET j == CHOOSE k \in above : \A m \in above : m <= k
            IN IF ValOf(lines[j]) = <<>> THEN KeyOf(lines[j]) ELSE None

\* Whether line i yields a record, and the record it yields.
Emits(lines, i, term) ==
    \/ KeyValue(lines[i]) /\ ValOf(lines[i]) # <<>> /\ ContainsCI(ValOf(lines[i]), term)
    \/ ListItem(lines[i]) /\ ContainsCI(ItemOf(lines[i]), term)
RecordOf(lines, i) ==
    IF KeyValue(lines[i]) THEN Match(i, KeyOf(lines[i]), ValOf(lines[i]))
    ELSE Match(i, ContextAt(lines, i), ItemOf(lines[i]))

RECURSIVE ScanOf(_, _, _)
\* The records of the first n lines, in line order.
ScanOf(lines, n, term) ==
    IF n = 0 THEN <<>>
    ELSE ScanOf(lines, n - 1, term)
         \o (IF Emits(lines, n, term) THEN <<RecordOf(lines, n)>> ELSE <<>>)

\* C8: after each line the records so far are those of the line rule (a
\* key/value line with a value emits iff the value contains the term, with its
\* own key; a list item emits iff its text contains the term, with the context
\* key; nothing else emits) and the remembered key is the context in force;
\* the example file yields {4, tags, green} for "green" and
\* {1, name, Alice Smith} for "alice".
C8_ScanFollowsLineRule ==
    search.pc = "scan" =>
        /\ search.matches = ScanOf(search.lines, search.idx - 1, search.ns_term)
        /\ search.last_key = ContextAt(search.lines, search.idx)
        /\ (search.lines = ExampleLines /\ search.idx > Len(search.lines)) =>
              /\ search.ns_term = TermGreen =>
                    search.matches = <<Match(4, <<"t", "a", "g", "s">>, <<"g", "r", "e", "e", "n">>)>>
              /\ search.ns_term = TermAlice =>
                    search.matches = <<Match(1, <<"n", "a", "m", "e">>, <<"A", "l", "i", "c", "e", " ", "S", "m", "i", "t", "h">>)>>

\* A file has been scanned to its end in which a key with a value cleared the
\* context before a list item matched, and one in which the example matched.
C8_Witness ==
    /\ search.pc = "scan"
    /\ search.idx > Len(search.lines)
    /\ \/ /\ Len(search.lines) = 3
          /\ KeyValue(search.lines[1]) /\ ValOf(search.lines[1]) = <<>>
          /\ KeyValue(search.lines[2]) /\ ValOf(search.lines[2]) # <<>>
          /\ ListItem(search.lines[3])
          /\ \E i \in DOMAIN search.matches :
                search.matches[i].line = 3 /\ search.matches[i].prop = None
       \/ /\ search.lines = ExampleLines
          /\ search.ns_term = TermGreen
          /\ Len(search.matches) = 1

RECURSIVE ReportsOf(_, _)
\* What a run over files that can all be read prints: for each file with
\* records, in order, its name and its records.
ReportsOf(files, term) ==
    IF files = <<>> THEN <<>>
    ELSE LET f == Head(files)
             recs == ScanOf(f.lines, Len(f.lines), term)
         IN (IF recs = <<>> THEN <<>> ELSE <<[file |-> f.name, matches |-> recs]>>)
            \o ReportsOf(Tail(files), term)

IsReadableYml(file) == file.readable /\ IsYml(file)
IsUnreadableYml(file) == ~file.readable /\ IsYml(file)

\* C9: a batch search over a workspace ends with result code 0, having warned
\* about each entity file it could not read and reported for the others
\* exactly what it reports when the unreadable files are not in the workspace.
C9_UnreadableFilesSkipped ==
    (search.pc = "done" /\ search.workspace # None) =>
        /\ search.rc = 0
        /\ search.out = ReportsOf(SelectSeq(search.walked, IsReadableYml), search.ns_term)
        /\ search.warnings =
              [i \in 1..Len(SelectSeq(search.walked, IsUnreadableYml)) |->
                  SelectSeq(search.walked, IsUnreadableYml)[i].name]

\* A run has ended that warned about a first file and reported a second.
C9_Witness ==
    /\ search.pc = "done"
    /\ Len(search.walked) = 2
    /\ ~search.walked[1].readable
    /\ search.warnings = <<search.walked[1].name>>
    /\ Len(search.out) = 1
    /\ search.out[1].file = search.walked[2].name

----------------------------------------------------------------------------
(* Schema names: app/commands/validate.py *)

RECURSIVE Split(_, _)
\* s.split(sep), sep being one character
Split(s, sep) ==
    LET i == Find(s, <<sep>>, 0)
    IN IF i = -1 THEN <<s>>
       ELSE <<Slice(s, 0, i)>> \o Split(Slice(s, i + 1, Len(s)), sep)

\* os.path.basename of a path given as text: what follows the last slash.
BaseOf(filename) == Split(filename, "/")[Len(Split(filename, "/"))]

\* get_schema_name_from_filename splitting the whole path, not its base name.
get_schema_name_WholePath(filename) ==
    LET parts == Split(filename, ".")
    IN IF Len(parts) >= 3 THEN parts[Len(parts) - 1] ELSE None

\* get_schema_name_from_filename
get_schema_name_from_filename(filename) ==
    LET base == BaseOf(filename)
        parts == Split(base, ".")
    IN IF Len(parts) >= 3 THEN parts[Len(parts) - 1] ELSE None

\* The longest path tried character by character.
MaxPathLen == 5

SchemaPathChars == {"a", ".", "/"}

EntityName == <<"c", "r", "i", "s", "p", "u", "s", "-", "a", "t", "t", "u", "c", "k", "s", ".", "P", "e", "r", "s", "o", "n", ".", "y", "m", "l">>
NoSchemaName == <<"n", "o", "s", "c", "h", "e", "m", "a", ".", "y", "m", "l">>
PersonName == <<"P", "e", "r", "s", "o", "n">>

\* The file names resolved: every short path, the two names of the
\* specification's example, and the first of them below a dotted directory.
Filenames ==
    Strings(SchemaPathChars, MaxPathLen)
    \cup {EntityName, NoSchemaName, <<"a", ".", "a", "/">> \o EntityName}

InitSchema ==
    /\ schema \in {[filename |-> n, out |-> None, called |-> FALSE] : n \in Filenames}
    /\ fs = InitFs /\ tree = Leaf(NoData) /\ search_term = None
    /\ matched_files = <<>> /\ mounted = FALSE
    /\ last = [op |-> Idle] /\ budget = 0
    /\ hl = Idle /\ fmt = Idle /\ search = Idle /\ MoreIdle

\* main: schema_name = get_schema_name_from_filename(yaml_file)
ResolveSchemaName ==
    /\ ~schema.called
    /\ schema' = [schema EXCEPT !.out = get_schema_name_from_filename(schema.filename),
                                !.called = TRUE]
    /\ UNCHANGED <<varsTree, hl, fmt, search, varsMore>>

NextSchema == ResolveSchemaName

SpecSchema == InitSchema /\ [][NextSchema]_vars

\* Where the base name starts, and the positions of its dots.
BaseStart(name) ==
    LET slashes == {i \in DOMAIN name : name[i] = "/"}
    IN IF slashes = {} THEN 1
       ELSE 1 + CHOOSE i \in slashes : \A j \in slashes : j <= i
BaseDots(name) == {i \in BaseStart(name)..Len(name) : name[i] = "."}
LastDot(name) == CHOOSE i \in BaseDots(name) : \A j \in BaseDots(name) : j <= i
DotBefore(name) ==
    CHOOSE i \in BaseDots(name) \ {LastDot(name)} :
        \A j \in BaseDots(name) \ {LastDot(name)} : j <= i

\* C10: the schema name is what stands between the last two dots of the base
\* file name when it has at least two dots (three segments), undeterminable
\* otherwise, whatever the directories are called; crispus-attucks.Person.yml
\* gives Person and noschema.yml is undeterminable.
C10_SchemaNameIsSecondToLastSegment ==
    schema.called =>
        /\ schema.out =
              IF Cardinality(BaseDots(schema.filename)) >= 2
              THEN SubSeq(schema.filename, DotBefore(schema.filename) + 1,
                          LastDot(schema.filename) - 1)
              ELSE None
        /\ schema.filename = EntityName => schema.out = PersonName
        /\ schema.filename = NoSchemaName => schema.out = None
        /\ schema.filename = <<"a", ".", "a", "/">> \o EntityName =>
              schema.out = PersonName

\* Names have been resolved: the example's below a dotted directory, and a
\* two-segment name below a dotted directory.
C10_Witness ==
    /\ schema.called
    /\ \/ schema.filename = <<"a", ".", "a", "/">> \o EntityName
          /\ schema.out = PersonName
       \/ schema.filename = <<"a", ".", "/", "a", ".">> /\ schema.out = None

----------------------------------------------------------------------------
(* Reference localization: rewrite_refs of app/commands/validate.py *)

\* A JSON value that is neither a string nor a container.
Number(n) == [kind |-> "number", value |-> n]

RefKey == <<"$", "r", "e", "f">>
HttpPrefix == <<"h", "t", "t", "p">>
FilePrefix == <<"f", "i", "l", "e", ":", "/", "/">>

\* v.startswith("http") or v.startswith("file://")
IsAbsoluteRef(v) == StartsWith(v, HttpPrefix) \/ StartsWith(v, FilePrefix)

\* A mistaken rewrite that prefixes every reference.
RewriteRef_Always(v, schema_dir_uri) == schema_dir_uri \o v

\* The value rewrite_refs stores for a string "$ref" value v.
RewriteRef(v, schema_dir_uri) ==
    IF ~IsAbsoluteRef(v) THEN schema_dir_uri \o v ELSE v

RECURSIVE rewrite_refs(_, _)
rewrite_refs(obj, schema_dir_uri) ==
    IF obj.kind = "dict"
    THEN Dict([i \in DOMAIN obj.items |->
                 LET k == obj.items[i][1]
                     v == obj.items[i][2]
                 IN IF k = RefKey /\ v.kind = "scalar"
                    THEN <<k, Scalar(RewriteRef(v.text, schema_dir_uri))>>
                    ELSE <<k, rewrite_refs(v, schema_dir_uri)>>])
    ELSE IF obj.kind = "list"
    THEN List([i \in DOMAIN obj.items |-> rewrite_refs(obj.items[i], schema_dir_uri)])
    ELSE obj

\* os.path.abspath(SCHEMA_DIR) for two places the package may be installed in.
SchemaDirs == {<<"/", "s">>, <<"/", "h", "t", "t", "p", "/", "s">>}

\* schema_dir_uri = f"file://{os.path.abspath(SCHEMA_DIR)}/"
SchemaDirUri(dir) == FilePrefix \o dir \o <<"/">>

\* References a schema document may hold: relative ones, a network one, local
\* ones, and the empty string.
RelativeRefs == {<<"a">>, <<"s", "/", "a">>, <<"#", "/", "a">>, <<>>}
NetworkRefs == {HttpPrefix \o <<":", "/", "/", "h", "/", "a">>}
LocalRefs == {FilePrefix \o <<"/", "a">>} \cup {SchemaDirUri(d) \o <<"a">> : d \in SchemaDirs}
RefValues == RelativeRefs \cup NetworkRefs \cup LocalRefs

MaxRefDepth == 1

FlatDocs ==
    {Dict(<<<<RefKey, Scalar(r)>>>>) : r \in RefValues}
    \cup {Dict(<<>>), List(<<>>), Scalar(<<"a">>), Number(1),
          Dict(<<<<RefKey, Number(1)>>>>),
          Dict(<<<<<<"k">>, Scalar(<<"a">>)>>, <<RefKey, Scalar(<<"a">>)>>>>)}

DocWrappings(d) ==
    {Dict(<<<<<<"k">>, d>>>>), Dict(<<<<RefKey, d>>>>), List(<<Scalar(<<"a">>), d>>)}

RECURSIVE Docs(_)
Docs(depth) ==
    IF depth = 0 THEN FlatDocs
    ELSE Docs(depth - 1) \cup UNION {DocWrappings(d) : d \in Docs(depth - 1)}

InitRefs ==
    /\ refs \in {[doc |-> d, base |-> SchemaDirUri(dir), once |-> None,
                  twice |-> None, pc |-> "start"] :
                     d \in Docs(MaxRefDepth), dir \in SchemaDirs}
    /\ fs = InitFs /\ tree = Leaf(NoData) /\ search_term = None
    /\ matched_files = <<>> /\ mounted = FALSE
    /\ last = [op |-> Idle] /\ budget = 0
    /\ hl = Idle /\ fmt = Idle /\ search = Idle /\ schema = Idle
    /\ val = Idle /\ cli = Idle /\ loc = Idle

\* schema = rewrite_refs(schema, schema_dir_uri)
Localize ==
    /\ refs.pc = "start"
    /\ refs' = [refs EXCEPT !.once = rewrite_refs(refs.doc, refs.base),
                            !.pc = "once"]
    /\ UNCHANGED <<varsTree, hl, fmt, search, schema, val, cli, loc>>

\* rewrite_refs applied to a document it has already rewritten.
LocalizeAgain ==
    /\ refs.pc = "once"
    /\ refs' = [refs EXCEPT !.twice = rewrite_refs(refs.once, refs.base),
                            !.pc = "twice"]
    /\ UNCHANGED <<varsTree, hl, fmt, search, schema, val, cli, loc>>

NextRefs == Localize \/ LocalizeAgain

SpecRefs == InitRefs /\ [][NextRefs]_vars

RECURSIVE Leaves(_, _)
\* The leaves of a document with the path that leads to each: a path element
\* is <<i, key>> in a mapping and <<i>> in a sequence; an empty container is
\* a leaf.
Leaves(obj, path) ==
    IF obj.kind = "dict" /\ obj.items # <<>>
    THEN UNION {Leaves(obj.items[i][2], Append(path, <<i, obj.items[i][1]>>)) :
                    i \in DOMAIN obj.items}
    ELSE IF obj.kind = "list" /\ obj.items # <<>>
    THEN UNION {Leaves(obj.items[i], Append(path, <<i>>)) : i \in DOMAIN obj.items}
    ELSE {<<path, obj>>}

\* A leaf that is a reference field: a string under the key "$ref".
IsRefLeaf(l) ==
    /\ l[1] # <<>> /\ Len(l[1][Len(l[1])]) = 2 /\ l[1][Len(l[1])][2] = RefKey
    /\ l[2].kind = "scalar"

IsRelativeRefLeaf(l) ==
    /\ IsRefLeaf(l)
    /\ ~StartsWith(l[2].text, HttpPrefix) /\ ~StartsWith(l[2].text, FilePrefix)

\* C12: applying rewrite_refs twice with the same base gives what applying it
\* once gives; a relative reference gets the base in front, a network or
\* already-local reference and every other leaf stay as they are, at the same
\* place of the document.
C12_LocalizeIdempotent ==
    /\ refs.pc \in {"once", "twice"} =>
          Leaves(refs.once, <<>>) =
              {IF IsRelativeRefLeaf(l)
               THEN <<l[1], Scalar(refs.base \o l[2].text)>> ELSE l :
                   l \in Leaves(refs.doc, <<>>)}
    /\ refs.pc = "twice" => refs.twice = refs.once

\* A nested document with a relative reference has been rewritten twice.
C12_Witness ==
    /\ refs.pc = "twice"
    /\ refs.doc = Dict(<<<<<<"k">>, Dict(<<<<RefKey, Scalar(<<"s", "/", "a">>)>>>>)>>>>)
    /\ refs.once # refs.doc

----------------------------------------------------------------------------
(* The validate command: app/commands/validate.py *)

JsonSuffix == <<".", "j", "s", "o", "n">>
SubtypesPrefix == <<"s", "u", "b", "t", "y", "p", "e", "s", "/">>
IdKey == <<"$", "i", "d">>

\* None among the values json.load and load_schema return.
NoDoc == [kind |-> "none"]

\* The schema documents of the schema directory: one without references, one
\* that refers to a subtype by relative path, the subtype (which declares an
\* identifier), and an empty document.
SubtypeFile == <<"t">> \o JsonSuffix
PlainSchema == Dict(<<<<<<"t">>, Scalar(<<"o">>)>>>>)
RefSchema ==
    Dict(<<<<<<"p">>, Dict(<<<<RefKey, Scalar(SubtypesPrefix \o SubtypeFile)>>>>)>>>>)
SubtypeSchema == Dict(<<<<IdKey, Scalar(<<"u">>)>>, <<<<"t">>, Scalar(<<"s">>)>>>>)
EmptySchema == Dict(<<>>)

\* A schema directory: the files of SCHEMA_DIR, whether it has a subtypes
\* directory, and the files of that directory.  A file is <<name, document>>.
SchemaDir(top, has_subtypes, sub) ==
    [top |-> top, has_subtypes |-> has_subtypes, sub |-> sub]

PFile == <<"P">> \o JsonSuffix
Readme == <<<<"r">>, NoDoc>>

SchemaDirsOnDisk ==
    {SchemaDir(top \cup {Readme}, sd[1], sd[2]) :
        top \in {{}, {<<PFile, PlainSchema>>}, {<<PFile, RefSchema>>},
                 {<<PFile, EmptySchema>>}},
        sd \in {<<FALSE, {}>>, <<TRUE, {}>>, <<TRUE, {<<SubtypeFile, SubtypeSchema>>}>>}}

\* The schema directory as a URI: schema_dir_uri of validate_yaml_file.
ValSchemaDirUri == SchemaDirUri(<<"/", "s">>)

\* load_schema
load_schema(d, schema_name) ==
    LET found == {f \in d.top : f[1] = schema_name \o JsonSuffix}
    IN IF found = {} THEN NoDoc ELSE (CHOOSE f \in found : TRUE)[2]

\* store[schema["$id"]] = schema, when the document declares "$id"
IdEntries(doc) ==
    IF doc.kind = "dict"
    THEN {<<doc.items[i][2].text, doc>> :
             i \in {j \in DOMAIN doc.items : doc.items[j][1] = IdKey}}
    ELSE {}

\* The entries build_schema_store makes of the files of one directory.
StoreEntries(files, prefix) ==
    UNION {{<<prefix \o f[1], f[2]>>} \cup IdEntries(f[2]) :
              f \in {g \in files : EndsWith(g[1], JsonSuffix)}}

\* build_schema_store: the store as a set of <<key, document>>.
build_schema_store(d) ==
    StoreEntries(d.top, <<>>)
    \cup (IF d.has_subtypes THEN StoreEntries(d.sub, SubtypesPrefix) ELSE {})

\* validate_yaml_file: the store with the file-URI keys added.
LocalizedStore(d, schema_dir_uri) ==
    LET store == build_schema_store(d)
    IN store \cup {<<schema_dir_uri \o e[1], rewrite_refs(e[2], schema_dir_uri)>> :
                      e \in {x \in store : EndsWith(x[1], JsonSuffix)}}

\* What an entity file holds: it cannot be opened, it is not YAML, or it
\* parses to data that does or does not reach the schema's references and
\* does or does not conform.
Unreadable == [kind |-> "unreadable", reaches |-> FALSE, conforms |-> FALSE]
Malformed == [kind |-> "malformed", reaches |-> FALSE, conforms |-> FALSE]
Data(reaches, conforms) == [kind |-> "data", reaches |-> reaches, conforms |-> conforms]

\* Whether the resolver finds every reference of the schema in the store.
Resolves(sch, store) ==
    \A l \in Leaves(sch, <<>>) :
        IsRefLeaf(l) => \E e \in store : e[1] = l[2].text

\* validator.validate(data) with the resolver over the store: the outcomes
\* the validator can have.  A reference is resolved when the data reaches it.
ValidatorOutcomes(data, sch, store) ==
    LET unresolved == data.reaches /\ ~Resolves(sch, store)
    IN (IF unresolved THEN {"RefResolutionError"} ELSE {})
       \cup (IF data.conforms THEN {} ELSE {"ValidationError"})
       \cup (IF ~unresolved /\ data.conforms THEN {"ok"} ELSE {})

\* validate_yaml_file, up to what validator.validate does.
ValidateOutcomes(content, sch, d) ==
    IF content.kind = "unreadable" THEN {"OSError"}
    ELSE IF content.kind = "malformed" THEN {"YAMLError"}
    ELSE ValidatorOutcomes(content, rewrite_refs(sch, ValSchemaDirUri),
                           LocalizedStore(d, ValSchemaDirUri))

\* The error of a result.
NoError == [kind |-> "none", name |-> <<>>]
Undeterminable == [kind |-> "Could not determine schema name", name |-> <<>>]
NotFound(schema_name) == [kind |-> "Schema not found", name |-> schema_name]
ValidationFailed == [kind |-> "ValidationError", name |-> <<>>]

Result(file, valid, error) == [file |-> file, valid |-> valid, error |-> error]

\* not schema_name, testing for None only.
NotName_NoneOnly(schema_name) == schema_name = None

\* not schema_name
NotName(schema_name) == schema_name = None \/ schema_name = <<>>

\* not schema
NotSchema(doc) ==
    \/ doc.kind = "none"
    \/ doc.kind \in {"dict", "list"} /\ doc.items = <<>>
    \/ doc.kind = "scalar" /\ doc.text = <<>>
    \/ doc.kind = "number" /\ doc.value = 0

\* The most entity files a workspace holds.
MaxEntities == 2

PEntity == <<"x", ".", "P", ".", "y", "m", "l">>
QEntity == <<"x", ".", "Q", ".", "y", "m", "l">>
PlainEntity == <<"x", ".", "y", "m", "l">>
EmptyNameEntity == <<"x", ".", ".", "y", "m", "l">>

EntityFile(name, content) == [name |-> name, content |-> content]

\* The files glob may find: entities of schema P with every kind of content,
\* an entity of a schema that no directory holds, and two names that do not
\* follow the convention.
EntityFiles ==
    {EntityFile(PEntity, c) :
        c \in {Unreadable, Malformed} \cup {Data(r, c) : r, c \in BOOLEAN}}
    \cup {EntityFile(n, Data(TRUE, TRUE)) : n \in {QEntity, PlainEntity, EmptyNameEntity}}

InitVal ==
    /\ val \in {[files |-> fl, dir |-> d, pc |-> "start", yaml_files |-> <<>>,
                 i |-> 0, results |-> <<>>, built |-> {}, validated |-> {},
                 printed |-> <<>>, exc |-> "", rc |-> -1] :
                    fl \in Seqs(EntityFiles, MaxEntities), d \in SchemaDirsOnDisk}
    /\ fs = InitFs /\ tree = Leaf(NoData) /\ search_term = None
    /\ matched_files = <<>> /\ mounted = FALSE
    /\ last = [op |-> Idle] /\ budget = 0
    /\ hl = Idle /\ fmt = Idle /\ search = Idle /\ schema = Idle
    /\ refs = Idle /\ cli = Idle /\ loc = Idle

\* main: yaml_files = find_yaml_files(workspace_dir); results = []
FindYamlFiles ==
    /\ val.pc = "start"
    /\ val' = [val EXCEPT !.yaml_files = val.files, !.i = 1, !.pc = "loop"]
    /\ UNCHANGED <<varsTree, hl, fmt, search, schema, refs, cli, loc>>

\* main: one turn of the loop over yaml_files.  (rc is -1 until run returns;
\* an exception that validate_yaml_file does not catch leaves main and run.)
CheckFile ==
    /\ val.pc = "loop" /\ val.i <= Len(val.yaml_files)
    /\ LET yaml_file == val.yaml_files[val.i]
           schema_name == get_schema_name_from_filename(yaml_file.name)
           doc == load_schema(val.dir, schema_name)
           Add(valid, error) ==
               [val EXCEPT !.results = Append(@, Result(yaml_file.name, valid, error)),
                           !.i = @ + 1]
           Validated(v) ==
               [v EXCEPT !.built = @ \cup {val.i}, !.validated = @ \cup {val.i}]
       IN IF NotName(schema_name) THEN val' = Add(FALSE, Undeterminable)
          ELSE IF NotSchema(doc) THEN val' = Add(FALSE, NotFound(schema_name))
          ELSE \E o \in ValidateOutcomes(yaml_file.content, doc, val.dir) :
                  val' = CASE o = "ok" -> Validated(Add(TRUE, NoError))
                           [] o = "ValidationError" ->
                                Validated(Add(FALSE, ValidationFailed))
                           [] o = "RefResolutionError" ->
                                Validated([val EXCEPT !.pc = "raised", !.exc = o])
                           [] OTHER -> [val EXCEPT !.pc = "raised", !.exc = o]
    /\ UNCHANGED <<varsTree, hl, fmt, search, schema, refs, cli, loc>>

\* What main prints for one result.
PrintedLine(r) ==
    IF r.valid THEN [tag |-> "OK", file |-> r.file, error |-> NoError]
    ELSE [tag |-> "FAIL", file |-> r.file, error |-> r.error]

\* main: for yaml_file, valid, error in results: console.print(...)
PrintResults ==
    /\ val.pc = "loop" /\ val.i > Len(val.yaml_files)
    /\ val' = [val EXCEPT
                 !.printed = [k \in DOMAIN val.results |-> PrintedLine(val.results[k])],
                 !.pc = "printed"]
    /\ UNCHANGED <<varsTree, hl, fmt, search, schema, refs, cli, loc>>

\* run: return 0
Return ==
    /\ val.pc = "printed"
    /\ val' = [val EXCEPT !.rc = 0, !.pc = "done"]
    /\ UNCHANGED <<varsTree, hl, fmt, search, schema, refs, cli, loc>>

NextVal == FindYamlFiles \/ CheckFile \/ PrintResults \/ Return

SpecVal == InitVal /\ [][NextVal]_vars

\* The run of the command is over: it returned or an exception left it.
BatchEnded == val.pc \in {"done", "raised"}

\* The file's name gives a schema name and the schema directory holds a
\* usable document of that name.
HasSchema(file, d) ==
    /\ ~NotName(get_schema_name_from_filename(file.name))
    /\ ~NotSchema(load_schema(d, get_schema_name_from_filename(file.name)))

\* The document refers to the subtype schema by relative path.
RefersToSubtype(doc) ==
    \E l \in Leaves(doc, <<>>) :
        IsRelativeRefLeaf(l) /\ l[2].text = SubtypesPrefix \o SubtypeFile

\* The subtype schema file is not in the schema directory.
SubtypeAbsent(d) == ~(d.has_subtypes /\ \E f \in d.sub : f[1] = SubtypeFile)

\* Something is wrong with a file that has a schema: it cannot be read, it is
\* not YAML, its data does not conform, or its data reaches a reference that
\* cannot be resolved.
Faulty(file, d) ==
    /\ HasSchema(file, d)
    /\ \/ file.content.kind \in {"unreadable", "malformed"}
       \/ ~file.content.conforms
       \/ /\ file.content.reaches
          /\ RefersToSubtype(load_schema(d, get_schema_name_from_filename(file.name)))
          /\ SubtypeAbsent(d)

\* C11: when the batch is over every discovered file has its result, in
\* discovery order, a file with something wrong has a fail result with a
\* message, and all the results have been printed in that order.
C11_NoFailureHaltsBatch ==
    BatchEnded =>
        /\ Len(val.results) = Len(val.files)
        /\ \A k \in DOMAIN val.results :
              /\ val.results[k].file = val.files[k].name
              /\ Faulty(val.files[k], val.dir) =>
                    ~val.results[k].valid /\ val.results[k].error # NoError
        /\ val.printed = [k \in DOMAIN val.results |-> PrintedLine(val.results[k])]

\* The k-th file has been through the loop: its turn ended with a result or
\* with an exception.
Processed(k) == k < val.i \/ (val.pc = "raised" /\ k = val.i)

\* The k-th file parses, and its schema refers to the subtype schema.
RefEntity(k) ==
    /\ val.files[k].content.kind = "data"
    /\ HasSchema(val.files[k], val.dir)
    /\ RefersToSubtype(load_schema(val.dir,
                                   get_schema_name_from_filename(val.files[k].name)))

\* The localized store holds the entity's schema and the subtype schema.
BothInLocalizedStore(k) ==
    LET store == LocalizedStore(val.dir, ValSchemaDirUri)
        name == get_schema_name_from_filename(val.files[k].name)
    IN /\ \E e \in store : e[1] = ValSchemaDirUri \o name \o JsonSuffix
       /\ \E e \in store : e[1] = ValSchemaDirUri \o SubtypesPrefix \o SubtypeFile

\* C13: an entity whose schema refers to a subtype schema by relative path
\* gets a result; the result is a pass only when both schema files are in the
\* localized store, and it is a fail with a message when the subtype schema
\* file is absent.
C13_MissingSubtypeFails ==
    \A k \in DOMAIN val.files :
        (val.pc # "start" /\ Processed(k) /\ RefEntity(k)) =>
            /\ k \in DOMAIN val.results
            /\ val.results[k].valid => BothInLocalizedStore(k)
            /\ SubtypeAbsent(val.dir) =>
                  ~val.results[k].valid /\ val.results[k].error # NoError

\* No file of the schema directory is the document of that schema name.
NoSchemaDocument(d, schema_name) ==
    \A f \in d.top : f[1] # schema_name \o JsonSuffix

\* The k-th result is the given failure, reached without building the schema
\* store and without invoking the validator.
FailsEarly(k, error) ==
    /\ val.results[k] = Result(val.files[k].name, FALSE, error)
    /\ k \notin val.built /\ k \notin val.validated

\* C14 (as stated): a file whose schema name is undeterminable fails with
\* "could not determine", a file whose schema name has no document in the
\* schema directory fails with "not found"; neither builds the store nor
\* invokes the validator.
C14_ResolutionFailures ==
    \A k \in DOMAIN val.results :
        LET name == get_schema_name_from_filename(val.files[k].name)
        IN /\ name = None => FailsEarly(k, Undeterminable)
           /\ (name # None /\ NoSchemaDocument(val.dir, name)) =>
                 FailsEarly(k, NotFound(name))

\* C14 (amended): as above, an empty schema name counting as undeterminable.
C14_ResolutionFailuresEmptyName ==
    \A k \in DOMAIN val.results :
        LET name == get_schema_name_from_filename(val.files[k].name)
        IN /\ (name = None \/ name = <<>>) => FailsEarly(k, Undeterminable)
           /\ (name # None /\ name # <<>> /\ NoSchemaDocument(val.dir, name)) =>
                 FailsEarly(k, NotFound(name))

\* A batch of a file with an empty schema name and a file whose schema is not
\* in the directory has both results.
C14_Witness ==
    /\ val.pc = "done"
    /\ Len(val.results) = 2
    /\ val.files[1].name = EmptyNameEntity /\ val.results[1].error = Undeterminable
    /\ val.files[2].name = QEntity /\ val.results[2].error = NotFound(<<"Q">>)

\* C15: when the run is over, a line has been printed for every discovered
\* file and run has returned 0.
C15_PrintsAllReturnsZero ==
    BatchEnded =>
        /\ Len(val.printed) = Len(val.files)
        /\ \A k \in DOMAIN val.printed : val.printed[k].file = val.files[k].name
        /\ val.rc = 0

----------------------------------------------------------------------------
(* The command line: main of cerebros.py *)

\* The names load_commands finds in app/commands.
Commands == {"browse", "example", "search", "validate"}

\* The longest argument list tried.
MaxArgs == 3

\* Global options without an argument, two command names (one unknown), a
\* plain argument and the end-of-options marker.
ArgTokens == {"-h", "--help", "-v", "--", "search", "nope", "t"}

HelpFlags == {"-h", "--help"}
GlobalFlags == HelpFlags \cup {"-v"}

\* The index of the first "--" of argv, Len(argv) + 1 when there is none.
EndOfOptions(argv) ==
    LET marks == {i \in DOMAIN argv : argv[i] = "--"}
    IN IF marks = {} THEN Len(argv) + 1
       ELSE CHOOSE i \in marks : \A j \in marks : i <= j

\* global_parser.parse_known_args(argv): the options of the global parser
\* are taken wherever they stand before the first "--"; what is left, and all
\* from the first "--" on, is the remainder.
parse_known_args(argv) ==
    LET e == EndOfOptions(argv)
        NotFlag(a) == a \notin GlobalFlags
    IN [help |-> \E i \in 1..(e - 1) : argv[i] \in HelpFlags,
        remainder |-> SelectSeq(SubSeq(argv, 1, e - 1), NotFlag)
                      \o SubSeq(argv, e, Len(argv))]

GlobalHelp == [text |-> "global help", command |-> ""]
NoCommand == [text |-> "No command provided + global help", command |-> ""]
UnknownCommand(c) == [text |-> "Unknown command + global help", command |-> c]
CommandHelp(c) == [text |-> "command help", command |-> c]
Handler(c) == [text |-> "handler output", command |-> c]

InitCli ==
    /\ cli \in {[argv |-> a, pc |-> "start", help |-> FALSE, remainder |-> <<>>,
                 out |-> [text |-> "", command |-> ""], rc |-> -1] :
                    a \in Seqs(ArgTokens, MaxArgs)}
    /\ fs = InitFs /\ tree = Leaf(NoData) /\ search_term = None
    /\ matched_files = <<>> /\ mounted = FALSE
    /\ last = [op |-> Idle] /\ budget = 0
    /\ hl = Idle /\ fmt = Idle /\ search = Idle /\ schema = Idle
    /\ refs = Idle /\ val = Idle /\ loc = Idle

\* main: gns, remainder = global_parser.parse_known_args(argv)
ParseGlobal ==
    /\ cli.pc = "start"
    /\ cli' = [cli EXCEPT !.help = parse_known_args(cli.argv).help,
                          !.remainder = parse_known_args(cli.argv).remainder,
                          !.pc = "parsed"]
    /\ UNCHANGED <<varsTree, hl, fmt, search, schema, refs, val, loc>>

\* main, from "if gns.help" to its return.  (rc is -1 until main returns; the
\* command's own parser and handler decide the last return value.)
Dispatch ==
    /\ cli.pc = "parsed"
    /\ \E handler_rc \in 0..2 :
          LET Done(out, rc) == [cli EXCEPT !.out = out, !.rc = rc, !.pc = "done"]
              command == cli.remainder[1]
              cmd_args == Tail(cli.remainder)
          IN cli' = IF cli.help THEN Done(GlobalHelp, 0)
                    ELSE IF cli.remainder = <<>> THEN Done(NoCommand, 1)
                    ELSE IF command \notin Commands
                    THEN Done(UnknownCommand(command), 2)
                    ELSE IF \E i \in DOMAIN cmd_args : cmd_args[i] \in HelpFlags
                    THEN Done(CommandHelp(command), 0)
                    ELSE Done(Handler(command), handler_rc)
    /\ UNCHANGED <<varsTree, hl, fmt, search, schema, refs, val, loc>>

NextCli == ParseGlobal \/ Dispatch

SpecCli == InitCli /\ [][NextCli]_vars

\* argv names a known command first and asks for help after it.
AsksCommandHelp(argv) ==
    /\ argv # <<>> /\ argv[1] \in Commands
    /\ \E j \in 2..Len(argv) : argv[j] \in HelpFlags

\* C16: `cerebro <command> --help` (or -h after the name of a known command)
\* prints that command's help and returns 0, not the global command list.
C16_CommandHelp ==
    (cli.pc = "done" /\ AsksCommandHelp(cli.argv)) =>
        cli.out = CommandHelp(cli.argv[1]) /\ cli.rc = 0

----------------------------------------------------------------------------
(* The browse session after a rebuild *)

\* The step just taken was a rebuild for a search term.
SearchRebuildStep == last'.op \in {"changed", "submitted"} /\ search_term' # None

\* The directories on the way from the root (excluded) to the files of M.
AncestorsOf(M) == {d \in DirPaths : Below(d, RootDir) /\ \E q \in M : Below(q, d)}

\* C17: after a rebuild for a search term (clear, build_filtered_tree,
\* expand_all and the expansion handlers it sets off) every file node is a
\* matched file and every directory node an ancestor of a matched file; with
\* no matched file the root has no children.
C17_SearchRebuildShowsOnlyMatches ==
    [][SearchRebuildStep =>
          /\ FileNodePaths(tree') \subseteq SeqRange(matched_files')
          /\ DirNodePaths(tree') \subseteq AncestorsOf(SeqRange(matched_files'))
          /\ matched_files' = <<>> => tree'.children = <<>>]_vars

\* The tree is the one-level build of the root: the root's entries when it
\* can be listed, nothing otherwise.
IsFullBuild(root, f) ==
    /\ root.data = DirData(RootDir)
    /\ IF Listable(f, RootDir) THEN ShowsListing(root, f, RootDir)
       ELSE root.children = <<>>

\* The tree is the projection of the file system on the files of M.
IsProjectionOf(root, M) ==
    /\ root.data = DirData(RootDir)
    /\ FileNodePaths(root) = M
    /\ DirNodePaths(root) = AncestorsOf(M)
    /\ \A pos \in Positions(root) : ~NodeAt(root, pos).data.placeholder

\* C18: after an input-changed, input-submitted or refresh event the term is
\* absent or a non-empty trimmed text; with no term there are no matched
\* files and the tree is the one-level build of the root; with a term the
\* matched files are those _scan_for_term finds and the tree is the
\* projection on exactly those files.
C18_SessionConsistentWithTerm ==
    [][RebuildStep =>
          /\ search_term' = None
             \/ (search_term' # <<>> /\ Strip(search_term') = search_term')
          /\ search_term' = None =>
                matched_files' = <<>> /\ IsFullBuild(tree', fs')
          /\ search_term' # None =>
                /\ matched_files' = scan_for_term(fs', search_term')
                /\ IsProjectionOf(tree', SeqRange(matched_files'))]_vars

----------------------------------------------------------------------------
(* Locate and Scan on one file: _scan_for_term of app/browse/app.py and the
   line loop of run in app/commands/search.py *)

\* The longest line (its newline aside) and the most lines of the file.
MaxLocLineLen == 3
MaxLocLines == 1

LocChars == {"a", ":", "-", " ", "Sigma"}

\* The lines f.readlines() may give, each with its newline.
LocLines == {Append(l, "\n") : l \in Strings(LocChars, MaxLocLineLen)}

LocTerms == {<<>>, <<"a">>, <<"A">>, <<"sigma">>, <<"Sigma">>, <<"a", ":">>}

RECURSIVE Concat(_)
\* fh.read(): the lines one after the other.
Concat(lines) == IF lines = <<>> THEN <<>> ELSE Head(lines) \o Concat(Tail(lines))

RECURSIVE scan_lines(_, _, _, _)
\* run: the loop over the lines of one file, from line idx on.
scan_lines(st, idx, lines, term) ==
    IF idx > Len(lines) THEN st
    ELSE scan_lines(scan_line(st, idx, lines[idx], term), idx + 1, lines, term)

InitLocate ==
    /\ loc \in {[lines |-> ls, term |-> t, pc |-> "start", located |-> FALSE,
                 matches |-> <<>>] :
                   ls \in Seqs(LocLines, MaxLocLines), t \in LocTerms}
    /\ fs = InitFs /\ tree = Leaf(NoData) /\ search_term = None
    /\ matched_files = <<>> /\ mounted = FALSE
    /\ last = [op |-> Idle] /\ budget = 0
    /\ hl = Idle /\ fmt = Idle /\ search = Idle /\ schema = Idle
    /\ refs = Idle /\ val = Idle /\ cli = Idle

\* _scan_for_term on the file, a readable .yml file below the root:
\* term_lower in fh.read().lower()
LocateFile ==
    /\ loc.pc = "start"
    /\ loc' = [loc EXCEPT !.located = Contains(Lower(Concat(loc.lines)), Lower(loc.term)),
                          !.pc = "located"]
    /\ UNCHANGED <<varsTree, hl, fmt, search, schema, refs, val, cli>>

\* run of the search command on the same file: term = ns.term.lower() and the
\* loop over f.readlines()
ScanFile ==
    /\ loc.pc = "located"
    /\ loc' = [loc EXCEPT
                 !.matches = scan_lines([matches |-> <<>>, last_key |-> None], 1,
                                        loc.lines, Lower(loc.term)).matches,
                 !.pc = "scanned"]
    /\ UNCHANGED <<varsTree, hl, fmt, search, schema, refs, val, cli>>

NextLocate == LocateFile \/ ScanFile

SpecLocate == InitLocate /\ [][NextLocate]_vars

\* C19: a file for which the scan yields a record is a file _scan_for_term
\* yields for the same term.
C19_LocateCoversScan ==
    (loc.pc = "scanned" /\ loc.matches # <<>>) => loc.located

====
